---- MODULE Spec2Model ----
(***************************************************************************)
(* A model of solid-permissions: the Permission class (src/permission.js,  *)
(* kept here as src/unnamed/part_003), the GroupListing class and the acl  *)
(* constants (src/src/group-listing.js) and the PermissionSet class (the   *)
(* second module of src/src/permission-set.js, lines 828-1798).            *)
(*                                                                         *)
(* Strings are sequences of tokens, so that concatenation (hashFragmentFor,*)
(* defaultAclUrlFor), startsWith, endsWith and the default sort order are  *)
(* computed the way the code computes them.  A token is a short string     *)
(* that stands for an indivisible piece of a URL.  JavaScript's null is    *)
(* the one-token string "null", which is what string concatenation makes   *)
(* of it; null and the empty string are the falsy strings.                 *)
(*                                                                         *)
(* JavaScript objects are shared by reference: the collection and the      *)
(* indexes of a PermissionSet hold references to Permission objects.  The  *)
(* model keeps a heap of Permission records and has the collection and the *)
(* indexes map to object ids.                                              *)
(***************************************************************************)
EXTENDS Integers, Sequences, FiniteSets, TLC

VARIABLES
  store,    \* the PermissionSet's Permission objects and the maps that refer to them:
            \*   heap: object id -> Permission record
            \*   authorizations: hash fragment -> object id   (this.authorizations)
            \*   agents: <<webId, accessType, resourceUrl>> -> object id   (this.authsBy.agents)
            \*   groups: <<webId, accessType, resourceUrl>> -> object id   (this.authsBy.groups)
  groups,   \* this.groups: group uri -> set of member webIds (GroupListing.members)
  config,   \* the constructor's arguments: resourceUrl, resourceType, strictOrigin, origin, host
  call,     \* the checkAccess call in progress, or the one that has just resolved
  nOps,     \* number of calls made so far that add to the PermissionSet
  nRemoves, \* number of removePermission calls made so far
  perm,     \* a stand-alone Permission object (as in the Permission unit tests)
  permErr,  \* whether the last call on the stand-alone Permission threw
  other,    \* a second stand-alone Permission, the argument of mergeWith
  nMerge,   \* number of perm.mergeWith(other) calls made so far
  doc,      \* the graph of the last serialize() call: a set of statements
  parsed,   \* the PermissionSet made from doc by initFromGraph (store-shaped)
  setErr    \* whether the last addPermission / addGroupPermission call threw

vars ==
  <<store, groups, config, call, nOps, nRemoves, perm, permErr, other, nMerge, doc, parsed,
    setErr>>

\* What the calls on the PermissionSet and on the first Permission leave alone
auxVars == <<other, nMerge, doc, parsed, setErr>>

\* What an add call leaves alone of these
docVars == <<other, nMerge, doc, parsed>>

setVars == <<store, groups, config, call, nOps, nRemoves>>

permVars == <<perm, permErr>>

----------------------------------------------------------------------------
(* Bounds *)

MaxOps == 2

\* removePermission calls made on one PermissionSet
MaxRemoves == 2

\* mergeWith calls made on one pair of Permissions
MaxMerge == 2

----------------------------------------------------------------------------
(* Strings *)

Null == <<"null">>

Empty == <<>>

Falsy(s) == s = Null \/ s = Empty

Truthy(s) == ~Falsy(s)

\* String.prototype.startsWith
StartsWith(s, prefix) ==
  /\ Len(prefix) <= Len(s)
  /\ SubSeq(s, 1, Len(prefix)) = prefix

\* String.prototype.endsWith
EndsWith(s, suffix) ==
  /\ Len(suffix) <= Len(s)
  /\ SubSeq(s, Len(s) - Len(suffix) + 1, Len(s)) = suffix

\* The code unit a token starts with (tokens of URLs start with different
\* characters, so this orders them as the default sort of strings does).
CharCode(t) ==
  CASE t = "-" -> 45
    [] t = ".acl" -> 46
    [] t = "/" -> 47
    [] t = "d" -> 100
    [] t = "f" -> 102
    [] t = "o" -> 111
    [] OTHER -> 0

\* s < t in the order of Array.prototype.sort() without a comparator
RECURSIVE StrLess(_, _)
StrLess(s, t) ==
  IF s = <<>> THEN t # <<>>
  ELSE IF t = <<>> THEN FALSE
  ELSE IF Head(s) = Head(t) THEN StrLess(Tail(s), Tail(t))
  ELSE CharCode(Head(s)) < CharCode(Head(t))

----------------------------------------------------------------------------
(* modes.js: the acl constants *)

READ == "acl:Read"
WRITE == "acl:Write"
APPEND == "acl:Append"
CONTROL == "acl:Control"
EVERYONE == <<"foaf:Agent">>
ALL_MODES == <<READ, WRITE, CONTROL>>
ACCESS_TO == "accessTo"
DEFAULT == "default"

\* acl[key]: the exported constants by name; Null stands for undefined
aclByName(key) ==
  CASE key = "READ" -> READ
    [] key = "WRITE" -> WRITE
    [] key = "APPEND" -> APPEND
    [] key = "CONTROL" -> CONTROL
    [] OTHER -> "undefined"

\* String.prototype.toUpperCase on the mode arguments of the model
toUpperCase(s) ==
  CASE s = "read" -> "READ"
    [] s = "write" -> "WRITE"
    [] s = "append" -> "APPEND"
    [] s = "control" -> "CONTROL"
    [] s = READ -> "ACL:READ"
    [] s = WRITE -> "ACL:WRITE"
    [] s = APPEND -> "ACL:APPEND"
    [] s = CONTROL -> "ACL:CONTROL"
    [] OTHER -> s

DEFAULT_ACL_SUFFIX == <<".acl">>
RESOURCE == "resource"
CONTAINER == "container"

----------------------------------------------------------------------------
(* Permission *)

\* new Permission(resourceUrl, inherited)
NewPermission(resourceUrl, inherited) ==
  [ accessModes |-> {},
    accessType |-> IF inherited THEN DEFAULT ELSE ACCESS_TO,
    agent |-> Null,
    group |-> Null,
    inherited |-> inherited,
    originsAllowed |-> {},
    resourceUrl |-> resourceUrl,
    virtual |-> FALSE ]

\* addMode(accessMode): one mode or an array of modes, given here as a sequence
addMode(p, accessModes) ==
  [p EXCEPT !.accessModes = @ \cup {accessModes[i] : i \in DOMAIN accessModes}]

\* removeMode(accessMode)
removeMode(p, accessModes) ==
  [p EXCEPT !.accessModes = @ \ {accessModes[i] : i \in DOMAIN accessModes}]

\* addOrigin(origin)
addOrigin(p, origins) ==
  [p EXCEPT !.originsAllowed = @ \cup {origins[i] : i \in DOMAIN origins}]

\* removeOrigin(origin)
removeOrigin(p, origins) ==
  [p EXCEPT !.originsAllowed = @ \ {origins[i] : i \in DOMAIN origins}]

allowsRead(p) == READ \in p.accessModes

allowsWrite(p) == WRITE \in p.accessModes

\* An allowsAppend that looks for acl:Append only
allowsAppendOnly(p) == APPEND \in p.accessModes

allowsAppend(p) == APPEND \in p.accessModes \/ WRITE \in p.accessModes

allowsControl(p) == CONTROL \in p.accessModes

allowsMode(p, accessMode) ==
  LET named == aclByName(toUpperCase(accessMode))
      mode == IF named # "undefined" THEN named ELSE accessMode
  IN IF mode = APPEND THEN allowsAppend(p) ELSE mode \in p.accessModes

allowsOrigin(p, origin) == origin \in p.originsAllowed

\* webId(): this.agent || this.group
webId(p) == IF Truthy(p.agent) THEN p.agent ELSE p.group

isEmpty(p) == p.accessModes = {}

isPublic(p) == p.group = EVERYONE

isGroup(p) == Truthy(p.group)

isAgent(p) == Truthy(p.agent)

hashFragmentFor(id, resourceUrl, authType) ==
  id \o <<"-">> \o resourceUrl \o <<"-">> \o <<authType>>

\* hashFragment() throws when `!this.webId || !this.resourceUrl`; this.webId
\* is the method, which is always truthy.
hashFragmentThrows(p) == Falsy(p.resourceUrl)

hashFragment(p) == hashFragmentFor(webId(p), p.resourceUrl, p.accessType)

mergeThrows(p, q) ==
  \/ hashFragmentThrows(p)
  \/ hashFragmentThrows(q)
  \/ hashFragment(p) # hashFragment(q)

\* A mergeWith that checks the keys and merges nothing
mergeWithNothing(p, q) == p

\* A mergeWith that replaces the modes of the receiver
mergeWithReplacing(p, q) ==
  IF mergeThrows(p, q) THEN p
  ELSE [p EXCEPT !.accessModes = q.accessModes]

\* mergeWith(auth): the receiver after the call
mergeWith(p, q) ==
  IF mergeThrows(p, q) THEN p
  ELSE [p EXCEPT !.accessModes = @ \cup q.accessModes]

\* clone(): a new object with a copy of every field (JSON keeps the strings,
\* the booleans and the two hashmaps of `true` values as they are)
clone(p) ==
  [ accessModes |-> p.accessModes,
    accessType |-> p.accessType,
    agent |-> p.agent,
    group |-> p.group,
    inherited |-> p.inherited,
    originsAllowed |-> p.originsAllowed,
    resourceUrl |-> p.resourceUrl,
    virtual |-> p.virtual ]

\* setGroup(group): <<the receiver after the call, whether it threw>>
\* (a group that is undefined is not a string, so that its `object` is read,
\* which throws)
setGroup(p, group) ==
  IF Truthy(p.agent) THEN <<p, TRUE>>
  ELSE IF group = Null THEN <<p, TRUE>>
  ELSE <<[p EXCEPT !.group = group], FALSE>>

setPublic(p) == setGroup(p, EVERYONE)

\* setAgent(agent) for a string that is not a mailto: link
setAgent(p, agent) ==
  IF agent = EVERYONE
    THEN LET r == setPublic(p)
         IN IF r[2] THEN r ELSE <<[r[1] EXCEPT !.agent = agent], FALSE>>
  ELSE IF Truthy(p.group) THEN <<p, TRUE>>
  ELSE <<[p EXCEPT !.agent = agent], FALSE>>

\* equals(auth): the fields are compared one by one; the origins are compared
\* as JSON text (the model has one origin, so the key order does not matter),
\* and no Permission of the model has a mailto: alias
equals(p, q) ==
  LET sameAgent == p.agent = q.agent
      sameGroup == p.group = q.group
      sameUrl == p.resourceUrl = q.resourceUrl
      sameNumberModes == Cardinality(p.accessModes) = Cardinality(q.accessModes)
      sameInherit == p.inherited = q.inherited
      sameModes == \A key \in p.accessModes : key \in q.accessModes
      sameOrigins == p.originsAllowed = q.originsAllowed
  IN /\ sameAgent /\ sameGroup /\ sameUrl /\ sameNumberModes /\ sameModes
     /\ sameInherit /\ sameOrigins

\* isValid()
isValid(p) == Truthy(webId(p)) /\ Truthy(p.resourceUrl) /\ ~isEmpty(p)

\* An RDF statement: <<subject, predicate, object>>, each a string
Triple(subject, predicate, object) == <<subject, predicate, object>>

\* rdf.namedNode('#' + this.hashFragment())
Fragment(h) == <<"#">> \o h

\* rdfStatements(rdf): the statements as a set (the graph they are added to is
\* a set of statements); no Permission of the model has a mailto: alias
rdfStatements(p) ==
  IF Falsy(webId(p)) \/ Falsy(p.resourceUrl) THEN {}
  ELSE IF p.virtual THEN {}
  ELSE LET fragment == Fragment(hashFragment(p))
       IN {Triple(fragment, "rdf:type", <<"acl:Authorization">>)}
          \cup (IF isAgent(p) THEN {Triple(fragment, "acl:agent", p.agent)} ELSE {})
          \cup (IF isPublic(p) THEN {Triple(fragment, "acl:agentClass", EVERYONE)}
                ELSE IF isGroup(p) THEN {Triple(fragment, "acl:agentGroup", p.group)}
                ELSE {})
          \cup {Triple(fragment, "acl:accessTo", p.resourceUrl)}
          \cup {Triple(fragment, "acl:mode", <<accessMode>>) : accessMode \in p.accessModes}
          \cup (IF p.inherited THEN {Triple(fragment, "acl:default", p.resourceUrl)} ELSE {})
          \cup {Triple(fragment, "acl:origin", origin) : origin \in p.originsAllowed}

----------------------------------------------------------------------------
(* GroupListing *)

\* hasMember(webId) on a listing, which the model keeps as its set of members
hasMember(listing, id) == id \in listing

----------------------------------------------------------------------------
(* PermissionSet: the collection and its indexes *)

EmptyMap == [x \in {} |-> x]

EmptyStore ==
  [ heap |-> EmptyMap, authorizations |-> EmptyMap, agents |-> EmptyMap,
    groups |-> EmptyMap ]

\* The id of a new object: its hash fragment and the first number not in use
\* (object ids are the model's, they stand for JavaScript references).
NewId(st, p) ==
  LET h == hashFragment(p)
      n == CHOOSE k \in 1..(Cardinality(DOMAIN st.heap) + 1) :
             /\ <<h, k>> \notin DOMAIN st.heap
             /\ \A j \in 1..(k - 1) : <<h, j>> \in DOMAIN st.heap
  IN <<h, n>>

\* Objects no map refers to any more are dropped from the heap.
Referenced(st) ==
  {st.authorizations[k] : k \in DOMAIN st.authorizations}
    \cup {st.agents[k] : k \in DOMAIN st.agents}
    \cup {st.groups[k] : k \in DOMAIN st.groups}

Collect(st) == [st EXCEPT !.heap = [o \in Referenced(st) |-> st.heap[o]]]

defaultIsAcl(uri) == EndsWith(uri, DEFAULT_ACL_SUFFIX)

defaultAclUrlFor(resourceUri) ==
  IF defaultIsAcl(resourceUri) THEN resourceUri
  ELSE resourceUri \o DEFAULT_ACL_SUFFIX

IndexKey(p) == <<webId(p), p.accessType, p.resourceUrl>>

\* addToAgentIndex(authorization), for the object a of the heap
addToAgentIndex(st, a) ==
  LET key == IndexKey(st.heap[a])
  IN IF key \notin DOMAIN st.agents
       THEN [st EXCEPT !.agents = @ @@ (key :> a)]
       ELSE [st EXCEPT !.heap[st.agents[key]] = mergeWith(@, st.heap[a])]

\* addToGroupIndex(authorization)
addToGroupIndex(st, a) ==
  LET key == IndexKey(st.heap[a])
  IN IF key \notin DOMAIN st.groups
       THEN [st EXCEPT !.groups = @ @@ (key :> a)]
       ELSE [st EXCEPT !.heap[st.groups[key]] = mergeWith(@, st.heap[a])]

RECURSIVE addAuthorization(_, _)

\* An addAuthorization that synthesizes nothing for the policy document
addNoControlPermissionsFor(st, a) == st

\* addControlPermissionsFor(auth)
addControlPermissionsFor(st, a) ==
  LET cloned == clone(st.heap[a])
      impliedAuth ==
        addMode([cloned EXCEPT !.resourceUrl = defaultAclUrlFor(st.heap[a].resourceUrl),
                               !.virtual = TRUE],
                ALL_MODES)
      i == NewId(st, impliedAuth)
  IN addAuthorization([st EXCEPT !.heap = @ @@ (i :> impliedAuth)], i)

\* addAuthorization(auth), for the object a of the heap
addAuthorization(st, a) ==
  LET h == hashFragment(st.heap[a])
      s1 == IF h \in DOMAIN st.authorizations
              THEN [st EXCEPT !.heap[st.authorizations[h]] = mergeWith(@, st.heap[a])]
              ELSE [st EXCEPT !.authorizations = @ @@ (h :> a)]
      s2 == IF ~s1.heap[a].virtual /\ allowsControl(s1.heap[a])
              THEN addControlPermissionsFor(s1, a)
              ELSE s1
      s3 == addToAgentIndex(s2, a)
  IN IF isPublic(s3.heap[a]) \/ isGroup(s3.heap[a])
       THEN addToGroupIndex(s3, a)
       ELSE s3

\* The store after `new Permission(...)` filled in as p is passed to addAuthorization
AddNew(st, p) ==
  LET a == NewId(st, p)
  IN Collect(addAuthorization([st EXCEPT !.heap = @ @@ (a :> p)], a))

isAuthInherited == config.resourceType = CONTAINER

\* get count
count(st) == Cardinality(DOMAIN st.authorizations)

\* permissionFor(webId, resourceUrl): the object id, or Null
permissionFor(st, id, resourceUrl) ==
  LET url == IF Truthy(resourceUrl) THEN resourceUrl ELSE config.resourceUrl
      h == hashFragmentFor(id, url, ACCESS_TO)
  IN IF Falsy(id) THEN Null
     ELSE IF h \in DOMAIN st.authorizations THEN st.authorizations[h]
     ELSE Null

\* removeAuthorization(auth)
removeAuthorization(st, a) ==
  LET h == hashFragment(st.heap[a])
  IN [st EXCEPT !.authorizations = [k \in DOMAIN @ \ {h} |-> @[k]]]

\* removePermission(webId, accessMode)
removePermission(st, id, accessMode) ==
  LET a == permissionFor(st, id, config.resourceUrl)
      s1 == [st EXCEPT !.heap[a] = removeMode(@, accessMode)]
  IN IF a = Null THEN st
     ELSE IF isEmpty(s1.heap[a]) THEN Collect(removeAuthorization(s1, a))
     ELSE s1

----------------------------------------------------------------------------
(* PermissionSet: resolution *)

\* Object.keys(defaultAuths) for a webId: the container urls of its inherited entries
Containers(index, id) == {k[3] : k \in {x \in DOMAIN index : x[1] = id /\ x[2] = DEFAULT}}

\* The search of findAuthByAgent without its reverse(): the shortest container
\* url the resource starts with
FirstContainerAscending(index, id, resourceUrl) ==
  LET matching == {c \in Containers(index, id) : StartsWith(resourceUrl, c)}
  IN IF matching = {} THEN Null
     ELSE CHOOSE c \in matching : \A d \in matching \ {c} : StrLess(c, d)

\* The first url of Object.keys(defaultAuths).sort().reverse() that the resource
\* starts with, or Null
FirstContainer(index, id, resourceUrl) ==
  LET matching == {c \in Containers(index, id) : StartsWith(resourceUrl, c)}
  IN IF matching = {} THEN Null
     ELSE CHOOSE c \in matching : \A d \in matching \ {c} : StrLess(d, c)

\* findAuthByAgent(webId, resourceUrl, indexType): the object id, or Null
findAuthByAgent(index, id, resourceUrl) ==
  LET container == FirstContainer(index, id, resourceUrl)
  IN IF <<id, ACCESS_TO, resourceUrl>> \in DOMAIN index
       THEN index[<<id, ACCESS_TO, resourceUrl>>]
     ELSE IF <<id, DEFAULT, resourceUrl>> \in DOMAIN index
       THEN index[<<id, DEFAULT, resourceUrl>>]
     ELSE IF container # Null THEN index[<<id, DEFAULT, container>>]
     ELSE Null

findPublicAuth(st, resourceUrl) == findAuthByAgent(st.groups, EVERYONE, resourceUrl)

checkOrigin(p) ==
  IF ~config.strictOrigin \/ Falsy(config.origin) \/ config.origin = config.host
    THEN TRUE
    ELSE allowsOrigin(p, config.origin)

\* An allowsPublic that applies the origin check to the public Permission
allowsPublicFromOrigin(st, mode, resourceUrl) ==
  LET url == IF Truthy(resourceUrl) THEN resourceUrl ELSE config.resourceUrl
      publicAuth == findPublicAuth(st, url)
  IN IF publicAuth = Null THEN FALSE
     ELSE allowsMode(st.heap[publicAuth], mode) /\ checkOrigin(st.heap[publicAuth])

allowsPublic(st, mode, resourceUrl) ==
  LET url == IF Truthy(resourceUrl) THEN resourceUrl ELSE config.resourceUrl
      publicAuth == findPublicAuth(st, url)
  IN IF publicAuth = Null THEN FALSE
     ELSE allowsMode(st.heap[publicAuth], mode)


checkAccessForAgent(st, resourceUrl, agentId, accessMode) ==
  LET auth == findAuthByAgent(st.agents, agentId, resourceUrl)
  IN /\ auth # Null
     /\ checkOrigin(st.heap[auth])
     /\ allowsMode(st.heap[auth], accessMode)

\* groupsForMember(agentId), over the cache of loaded listings
groupsForMember(cache, agentId) ==
  {g \in DOMAIN cache : hasMember(cache[g], agentId)}

checkGroupAccess(st, cache, resourceUrl, agentId, accessMode) ==
  \E groupWebId \in groupsForMember(cache, agentId) :
    checkAccessForAgent(st, resourceUrl, groupWebId, accessMode)

\* groupUris(excludePublic = true)
groupUris(st) == {k[1] : k \in DOMAIN st.groups} \ {EVERYONE}

hasGroups(st) == groupUris(st) # {}

----------------------------------------------------------------------------
(* The values the model draws its inputs from *)

Alice == <<"alice">>
Bob == <<"bob">>
Group1 == <<"group1">>

Root == <<"/">>
Docs == <<"/", "d", "/">>
File1 == <<"/", "d", "/", "f">>
Other == <<"/", "o">>
DocsAcl == Docs \o DEFAULT_ACL_SUFFIX
File1Acl == File1 \o DEFAULT_ACL_SUFFIX

Host1 == <<"host1">>
App1 == <<"app1">>

\* new PermissionSet(resourceUrl, aclUrl, isContainer, options)
Kinds ==
  { [resourceUrl |-> File1, resourceType |-> RESOURCE],
    [resourceUrl |-> Docs, resourceType |-> CONTAINER],
    [resourceUrl |-> File1Acl, resourceType |-> RESOURCE] }

CrossOrigin == [strictOrigin |-> TRUE, origin |-> App1, host |-> Host1]

\* options.strictOrigin, options.origin, options.host
OriginSettings ==
  { [strictOrigin |-> FALSE, origin |-> App1, host |-> Host1],
    [strictOrigin |-> TRUE, origin |-> Null, host |-> Host1],
    [strictOrigin |-> TRUE, origin |-> Host1, host |-> Host1],
    CrossOrigin }

\* The PermissionSets of the model: a resource under each origin setting, and a
\* container and a policy document under the setting that checks the origins
Configs ==
  { [resourceUrl |-> c[1].resourceUrl, resourceType |-> c[1].resourceType,
     strictOrigin |-> c[2].strictOrigin, origin |-> c[2].origin, host |-> c[2].host] :
    c \in {x \in Kinds \X OriginSettings :
             x[1].resourceUrl = File1 \/ x[2] = CrossOrigin} }

AgentIds == {Alice, EVERYONE}
GroupIds == {Group1}
ModeArgs == {<<READ>>, <<WRITE>>, <<APPEND>>, <<CONTROL>>}
OriginArgs == {Null, <<App1>>}

\* The arguments of addAuthorizationFor: the agent is a WebID string or a
\* GroupListing object
ForUrls == {Root, Docs, File1}
ForAgents ==
  { [instance |-> "string", value |-> Alice],
    [instance |-> "string", value |-> EVERYONE],
    [instance |-> "GroupListing", listing |-> Group1] }
ForModes == {<<READ>>, <<WRITE>>}

QueryUrls == {File1, DocsAcl, File1Acl, Other}
QueryIds == {Alice, Bob, Group1}
QueryModes == {READ, WRITE, APPEND, CONTROL, "append"}
Listings == SUBSET {Bob}

\* options.fetchGraph and options.rdf of checkAccess: given or not
LoaderOptions ==
  { [fetchGraph |-> TRUE, rdf |-> TRUE],
    [fetchGraph |-> FALSE, rdf |-> TRUE],
    [fetchGraph |-> TRUE, rdf |-> FALSE] }

----------------------------------------------------------------------------
(* PermissionSet: the policy document *)

\* allAuthorizations(): the Permissions of the collection
allAuthorizations(st) == {st.heap[st.authorizations[h]] : h \in DOMAIN st.authorizations}

\* buildGraph(rdf)
buildGraph(st) == UNION {rdfStatements(auth) : auth \in allAuthorizations(st)}

\* addAuthorizationFor(resourceUrl, inherit, agent, accessModes, origins): the
\* agent is a string or a statement (its value is taken) or a GroupListing
addAuthorizationFor(st, resourceUrl, inherit, agent, accessModes, origins) ==
  LET auth == NewPermission(resourceUrl, inherit)
      a1 == IF agent.instance = "GroupListing"
              THEN setGroup(auth, agent.listing)[1]
              ELSE setAgent(auth, agent.value)[1]
      a2 == addMode(a1, accessModes)
      a3 == addOrigin(a2, origins)
  IN AddNew(st, a3)

\* The elements of a set in the order the iteration visits them
RECURSIVE SetToSeq(_)
SetToSeq(S) ==
  IF S = {} THEN <<>>
  ELSE LET x == CHOOSE y \in S : TRUE
       IN <<x>> \o SetToSeq(S \ {x})

\* graph.match(subject, predicate): the objects of the matching statements
Match(graph, subject, predicate) ==
  {t[3] : t \in {u \in graph : u[1] = subject /\ u[2] = predicate}}

\* The addAuthorizationFor calls initFromGraph makes for one fragment: for
\* each agent, public and group match, one call per acl:accessTo statement and
\* then one per acl:default statement.  The modes and origins are handed over
\* as statements, of which addModeSingle and addOriginSingle take the value.
SectionCalls(graph, fragment) ==
  LET accessModes == SetToSeq({m[1] : m \in Match(graph, fragment, "acl:mode")})
      origins == SetToSeq(Match(graph, fragment, "acl:origin"))
      agentMatches ==
        SetToSeq({[instance |-> "Quad", value |-> a] :
                    a \in Match(graph, fragment, "acl:agent")})
      publicMatches ==
        SetToSeq({[instance |-> "Quad", value |-> a] :
                    a \in Match(graph, fragment, "acl:agentClass") \cap {EVERYONE}})
      groupMatches ==
        SetToSeq({[instance |-> "GroupListing", listing |-> g] :
                    g \in Match(graph, fragment, "acl:agentGroup")})
      allAgents == agentMatches \o publicMatches \o groupMatches
      accessToMatches == SetToSeq(Match(graph, fragment, "acl:accessTo"))
      inheritedMatches == SetToSeq(Match(graph, fragment, "acl:default"))
      callsFor(agentMatch) ==
        [i \in 1..Len(accessToMatches) |->
           [resourceUrl |-> accessToMatches[i], inherit |-> FALSE,
            agent |-> agentMatch, accessModes |-> accessModes, origins |-> origins]]
        \o
        [i \in 1..Len(inheritedMatches) |->
           [resourceUrl |-> inheritedMatches[i], inherit |-> TRUE,
            agent |-> agentMatch, accessModes |-> accessModes, origins |-> origins]]
      RECURSIVE all(_)
      all(i) == IF i > Len(allAgents) THEN <<>>
                ELSE callsFor(allAgents[i]) \o all(i + 1)
  IN all(1)

\* The set after the calls of a list have been made in order; each call
\* returns the set, which then holds the Permission it added
RECURSIVE AddAll(_, _)
AddAll(st, calls) ==
  IF calls = <<>> THEN st
  ELSE LET c == Head(calls)
           next == addAuthorizationFor(st, c.resourceUrl, c.inherit, c.agent,
                                       c.accessModes, c.origins)
       IN IF next.authorizations # EmptyMap THEN AddAll(next, Tail(calls))
          ELSE next

\* initFromGraph(graph) on a set st: the sections are the subjects typed
\* acl:Authorization, or the subjects with a mode when none is typed
initFromGraph(st, graph) ==
  LET typed == {t[1] : t \in {u \in graph : u[2] = "rdf:type"
                                              /\ u[3] = <<"acl:Authorization">>}}
      authSections == IF typed # {} THEN typed
                      ELSE {t[1] : t \in {u \in graph : u[2] = "acl:mode"}}
      sections == SetToSeq(authSections)
      RECURSIVE calls(_)
      calls(i) == IF i > Len(sections) THEN <<>>
                  ELSE SectionCalls(graph, sections[i]) \o calls(i + 1)
  IN AddAll(st, calls(1))

\* PermissionSet equals(ps), for two sets made with the same resourceUrl,
\* aclUrl and resourceType: the same number of keys, and under each key of
\* this set an equal Permission in the other
equalsSet(st, ps) ==
  /\ Cardinality(DOMAIN st.authorizations) = Cardinality(DOMAIN ps.authorizations)
  /\ \A authKey \in DOMAIN st.authorizations :
       /\ authKey \in DOMAIN ps.authorizations
       /\ equals(st.heap[st.authorizations[authKey]],
                 ps.heap[ps.authorizations[authKey]])

----------------------------------------------------------------------------
(* PermissionSet: the calls *)

IdleCall ==
  [ pc |-> "idle", resourceUrl |-> Null, agentId |-> Null, accessMode |-> "none",
    pending |-> {}, fetched |-> EmptyMap, absent |-> {}, result |-> "none" ]

\* An accessMode argument is a sequence of modes: <<m>> for the mode m or the
\* array [m], <<>> for the array [], <<"">> for the string '', Null when it is
\* missing.  `!accessMode` is true for the last two.
FalsyMode(accessMode) == accessMode = Null \/ accessMode = <<"">>

\* addMode(accessMode) throws on a missing mode: addModeSingle reads the
\* `object` of what is not a string
addModeThrows(accessMode) == accessMode = Null

\* addPermission(webId, accessMode, origin); setErr tells whether it threw
AddPermission(id, accessMode, origin) ==
  /\ call.pc = "idle"
  /\ nOps < MaxOps
  /\ IF Falsy(id) \/ FalsyMode(accessMode) \/ Falsy(config.resourceUrl)
       THEN /\ setErr' = TRUE
            /\ UNCHANGED <<store, nOps>>
       ELSE LET a0 == NewPermission(config.resourceUrl, isAuthInherited)
                a1 == setAgent(a0, id)[1]
                a2 == addMode(a1, accessMode)
                a3 == IF Truthy(origin) THEN addOrigin(a2, origin) ELSE a2
            IN /\ store' = AddNew(store, a3)
               /\ nOps' = nOps + 1
               /\ setErr' = FALSE
  /\ UNCHANGED <<groups, config, nRemoves, call, perm, permErr, docVars>>

\* addGroupPermission(webId, accessMode); setErr tells whether it threw (on
\* its own test of the resourceUrl, or in setGroup or addMode)
AddGroupPermission(id, accessMode) ==
  /\ call.pc = "idle"
  /\ nOps < MaxOps
  /\ LET a0 == NewPermission(config.resourceUrl, isAuthInherited)
         a1 == setGroup(a0, id)
         a2 == addMode(a1[1], accessMode)
     IN IF Falsy(config.resourceUrl) \/ a1[2] \/ addModeThrows(accessMode)
          THEN /\ setErr' = TRUE
               /\ UNCHANGED <<store, nOps>>
          ELSE /\ store' = AddNew(store, a2)
               /\ nOps' = nOps + 1
               /\ setErr' = FALSE
  /\ UNCHANGED <<groups, config, nRemoves, call, perm, permErr, docVars>>

\* addAuthorizationFor(resourceUrl, inherit, agent, accessModes, origins)
AddAuthorizationFor(resourceUrl, inherit, agent, accessModes, origins) ==
  /\ call.pc = "idle"
  /\ nOps < MaxOps
  /\ store' = addAuthorizationFor(store, resourceUrl, inherit, agent, accessModes,
                                  origins)
  /\ nOps' = nOps + 1
  /\ UNCHANGED <<groups, config, nRemoves, call, perm, permErr, auxVars>>

\* permissionFor(webId).addOrigin(origin): the caller adds an origin to the
\* Permission the set returns
AddOriginFor(id, origin) ==
  LET a == permissionFor(store, id, Null)
  IN /\ call.pc = "idle"
     /\ nOps < MaxOps
     /\ a # Null
     /\ store' = [store EXCEPT !.heap[a] = addOrigin(@, origin)]
     /\ nOps' = nOps + 1
     /\ UNCHANGED <<groups, config, nRemoves, call, perm, permErr, auxVars>>

\* removePermission(webId, accessMode)
RemovePermission(id, accessMode) ==
  /\ call.pc = "idle"
  /\ nRemoves < MaxRemoves
  /\ store' = removePermission(store, id, accessMode)
  /\ nRemoves' = nRemoves + 1
  /\ UNCHANGED <<groups, config, call, nOps, perm, permErr, auxVars>>

\* checkAccess(resourceUrl, agentId, accessMode, options), up to its first
\* return: a resolved promise, or the promise of loadGroups(options)
CheckAccess(resourceUrl, agentId, accessMode, options) ==
  LET started == [IdleCall EXCEPT !.resourceUrl = resourceUrl, !.agentId = agentId,
                                  !.accessMode = accessMode]
  IN /\ call.pc = "idle"
     /\ call' =
          IF allowsPublic(store, accessMode, resourceUrl)
            THEN [started EXCEPT !.pc = "done", !.result = "true"]
          ELSE IF checkAccessForAgent(store, resourceUrl, agentId, accessMode)
            THEN [started EXCEPT !.pc = "done", !.result = "true"]
          ELSE IF hasGroups(store)
            THEN IF ~options.fetchGraph \/ ~options.rdf
                   THEN [started EXCEPT !.pc = "done", !.result = "rejected"]
                   ELSE [started EXCEPT !.pc = "loading", !.pending = groupUris(store)]
          ELSE [started EXCEPT !.pc = "done", !.result = "false"]
     /\ UNCHANGED <<store, groups, config, nRemoves, nOps, perm, permErr, auxVars>>

\* A then handler of loadGroups that stores nothing when a listing is null
storeGroupsUnlessAbsent(cache, fetched) ==
  LET loaded == IF \A g \in DOMAIN fetched : fetched[g].ok THEN DOMAIN fetched ELSE {}
  IN [g \in DOMAIN cache \cup loaded |->
        IF g \in loaded THEN fetched[g].members ELSE cache[g]]

\* A then handler of loadGroups that keeps the listing a slot already has
storeGroupsKeepingCached(cache, fetched) ==
  LET loaded == {g \in DOMAIN fetched : fetched[g].ok} \ DOMAIN cache
  IN [g \in DOMAIN cache \cup loaded |->
        IF g \in loaded THEN fetched[g].members ELSE cache[g]]

\* this.groups after the then handler of loadGroups has stored the listings
\* that are not null
storeGroups(cache, fetched) ==
  LET loaded == {g \in DOMAIN fetched : fetched[g].ok}
  IN [g \in DOMAIN cache \cup loaded |->
        IF g \in loaded THEN fetched[g].members ELSE cache[g]]

\* call.absent records the listings the fetcher reported absent in the call and
\* call.fetched what each load of the call resolved to.
\* GroupListing.loadFrom(uri, fetchGraph, rdf, options) settles: the fetched
\* graph is parsed into a listing, or the fetch or the parse fails and the
\* catch handler makes it null.  When it is the last load to settle,
\* Promise.all resolves and the then handlers of loadGroups and of checkAccess
\* run in the same turn.
LoadFrom(uri, ok, listing) ==
  LET fetched == call.fetched @@ (uri :> [ok |-> ok, members |-> listing])
      cache == storeGroups(groups, fetched)
      absent == IF ok THEN call.absent ELSE call.absent \cup {uri}
  IN /\ call.pc = "loading"
     /\ uri \in call.pending
     /\ IF call.pending = {uri}
          THEN /\ groups' = cache
               /\ call' = [call EXCEPT
                    !.pc = "done",
                    !.pending = {},
                    !.fetched = fetched,
                    !.absent = absent,
                    !.result = IF checkGroupAccess(store, cache, call.resourceUrl,
                                                   call.agentId, call.accessMode)
                                 THEN "true" ELSE "false"]
          ELSE /\ call' = [call EXCEPT !.pending = @ \ {uri}, !.fetched = fetched,
                                       !.absent = absent]
               /\ UNCHANGED groups
     /\ UNCHANGED <<store, config, nRemoves, nOps, perm, permErr, auxVars>>

\* The caller has the result
Return ==
  /\ call.pc = "done"
  /\ call' = IdleCall
  /\ UNCHANGED <<store, groups, config, nRemoves, nOps, perm, permErr, auxVars>>

NewPerm == NewPermission(Null, FALSE)

InitSet ==
  /\ store = EmptyStore
  /\ groups = EmptyMap
  /\ config \in Configs
  /\ call = IdleCall
  /\ nOps = 0
  /\ nRemoves = 0

\* No second Permission is in play
InitDoc ==
  /\ doc = {}
  /\ parsed = EmptyStore

InitAux ==
  /\ other = NewPerm
  /\ nMerge = 0
  /\ InitDoc
  /\ setErr = FALSE

Init ==
  /\ InitSet
  /\ perm = NewPerm
  /\ permErr = FALSE
  /\ InitAux

Adds ==
  \/ \E id \in AgentIds, m \in ModeArgs, o \in OriginArgs : AddPermission(id, m, o)
  \/ \E id \in GroupIds, m \in ModeArgs : AddGroupPermission(id, m)

Removes ==
  \E id \in AgentIds \cup GroupIds, m \in ModeArgs : RemovePermission(id, m)

Checks ==
  \/ \E r \in QueryUrls, id \in QueryIds, m \in QueryModes, opt \in LoaderOptions :
       CheckAccess(r, id, m, opt)
  \/ \E g \in GroupIds, l \in Listings : LoadFrom(g, TRUE, l)
  \/ \E g \in GroupIds : LoadFrom(g, FALSE, {})
  \/ Return

Next == Adds \/ Removes \/ Checks

Spec == Init /\ [][Next]_vars

NextAdd == Adds \/ Checks

SpecAdd == Init /\ [][NextAdd]_vars

\* A Permission on its own: the caller edits it, hands it to a new
\* PermissionSet with addAuthorization, and asks the set
AddMode(accessMode) ==
  /\ call.pc = "idle" /\ store = EmptyStore
  /\ perm' = addMode(perm, accessMode)
  /\ permErr' = FALSE
  /\ UNCHANGED <<setVars, auxVars>>

RemoveMode(accessMode) ==
  /\ call.pc = "idle" /\ store = EmptyStore
  /\ perm' = removeMode(perm, accessMode)
  /\ permErr' = FALSE
  /\ UNCHANGED <<setVars, auxVars>>

AddOrigin(origin) ==
  /\ call.pc = "idle" /\ store = EmptyStore
  /\ perm' = addOrigin(perm, origin)
  /\ permErr' = FALSE
  /\ UNCHANGED <<setVars, auxVars>>

RemoveOrigin(origin) ==
  /\ call.pc = "idle" /\ store = EmptyStore
  /\ perm' = removeOrigin(perm, origin)
  /\ permErr' = FALSE
  /\ UNCHANGED <<setVars, auxVars>>

\* setAgent(agent); permErr tells whether the call threw
SetAgent(agent) ==
  /\ call.pc = "idle" /\ store = EmptyStore
  /\ perm' = setAgent(perm, agent)[1]
  /\ permErr' = setAgent(perm, agent)[2]
  /\ UNCHANGED <<setVars, auxVars>>

\* setGroup(group); permErr tells whether the call threw
SetGroup(group) ==
  /\ call.pc = "idle" /\ store = EmptyStore
  /\ perm' = setGroup(perm, group)[1]
  /\ permErr' = setGroup(perm, group)[2]
  /\ UNCHANGED <<setVars, auxVars>>

\* setPublic(); permErr tells whether the call threw
SetPublic ==
  /\ call.pc = "idle" /\ store = EmptyStore
  /\ perm' = setPublic(perm)[1]
  /\ permErr' = setPublic(perm)[2]
  /\ UNCHANGED <<setVars, auxVars>>

\* addAuthorization(perm) on the new set; its hashFragment() call may throw
AddAuthorization ==
  /\ call.pc = "idle" /\ store = EmptyStore
  /\ IF hashFragmentThrows(perm)
       THEN /\ permErr' = TRUE
            /\ UNCHANGED store
       ELSE /\ permErr' = FALSE
            /\ store' = AddNew(store, perm)
  /\ UNCHANGED <<groups, config, nRemoves, call, nOps, perm, auxVars>>

InitPermission ==
  /\ InitSet
  /\ config.resourceUrl = File1
  /\ ~config.strictOrigin
  /\ perm \in {NewPermission(Null, FALSE), NewPermission(File1, FALSE),
               NewPermission(Docs, TRUE)}
  /\ permErr = FALSE
  /\ InitAux

Edits ==
  \/ \E m \in ModeArgs : AddMode(m)
  \/ \E m \in ModeArgs : RemoveMode(m)
  \/ AddOrigin(<<App1>>)
  \/ RemoveOrigin(<<App1>>)
  \/ \E id \in AgentIds : SetAgent(id)
  \/ \E id \in GroupIds : SetGroup(id)
  \/ SetPublic

NextPermission == Edits \/ AddAuthorization \/ Checks

SpecPermission == InitPermission /\ [][NextPermission]_vars

\* Two Permissions built with the setters and addMode, and one merged into the
\* other
MergeUrls == {Null, File1, Docs}
MergeModes == SUBSET {READ, WRITE, APPEND}

MergeInputs ==
  LET fresh == {NewPermission(u, inh) : u \in MergeUrls, inh \in BOOLEAN}
      named == fresh \cup {setAgent(p, Alice)[1] : p \in fresh}
                     \cup {setGroup(p, Group1)[1] : p \in fresh}
  IN UNION {{[p EXCEPT !.accessModes = ms] : ms \in MergeModes} : p \in named}

\* perm.mergeWith(other); permErr tells whether the call threw.  The method
\* reads the modes of its argument and writes the receiver only.
MergeWith ==
  /\ nMerge < MaxMerge
  /\ perm' = mergeWith(perm, other)
  /\ permErr' = mergeThrows(perm, other)
  /\ nMerge' = nMerge + 1
  /\ UNCHANGED <<setVars, other, doc, parsed, setErr>>

InitMerge ==
  /\ InitSet
  /\ config.resourceUrl = File1
  /\ ~config.strictOrigin
  /\ perm \in MergeInputs
  /\ other \in MergeInputs
  /\ permErr = FALSE
  /\ nMerge = 0
  /\ InitDoc
  /\ setErr = FALSE

NextMerge == MergeWith

SpecMerge == InitMerge /\ [][NextMerge]_vars

\* serialize(options), with an rdf library at hand: the graph buildGraph makes
\* is written out (the text is the library's, the model keeps the graph)
Serialize ==
  /\ call.pc = "idle"
  /\ doc' = buildGraph(store)
  /\ UNCHANGED <<setVars, permVars, other, nMerge, parsed, setErr>>

\* new PermissionSet(resourceUrl, aclUrl, resourceType, { graph, rdf }) on the
\* graph parsed from the serialized text
Parse ==
  /\ call.pc = "idle"
  /\ parsed' = initFromGraph(EmptyStore, doc)
  /\ UNCHANGED <<setVars, permVars, other, nMerge, doc, setErr>>

\* A set that is filled by the add calls, serialized and parsed again
NextRound == Adds \/ Serialize \/ Parse

SpecRound == Init /\ [][NextRound]_vars

\* A set that is filled by the add calls, serialized and asked
NextExport == Adds \/ Serialize \/ Checks

SpecExport == Init /\ [][NextExport]_vars

\* A Permission edited on its own, added to a new set, which is serialized
NextCodec == Edits \/ AddAuthorization \/ Serialize \/ Parse

SpecCodec == InitPermission /\ [][NextCodec]_vars

\* A set, with or without a resourceUrl, whose add calls get every kind of
\* argument: ids and modes that are given, empty or missing
NoResource ==
  [resourceUrl |-> Null, resourceType |-> RESOURCE, strictOrigin |-> FALSE,
   origin |-> Null, host |-> Host1]

ArgIds == {Alice, Group1, Empty, Null}
ArgModes == {<<READ>>, <<WRITE>>, <<READ, WRITE>>, <<>>, <<"">>, Null}

InitArgs ==
  /\ store = EmptyStore
  /\ groups = EmptyMap
  /\ config \in {NoResource} \cup {c \in Configs : ~c.strictOrigin}
  /\ call = IdleCall
  /\ nOps = 0
  /\ nRemoves = 0
  /\ perm = NewPerm
  /\ permErr = FALSE
  /\ InitAux

AddsArgs ==
  \/ \E id \in ArgIds, m \in ArgModes : AddPermission(id, m, Null)
  \/ \E id \in ArgIds, m \in ArgModes : AddGroupPermission(id, m)

NextArgs == AddsArgs

SpecArgs == InitArgs /\ [][NextArgs]_vars

\* A set with the grants of two groups: each listing is fetched on its own
Group2 == <<"group2">>

TwoGroups == {Group1, Group2}

AddsGroups ==
  \/ \E id \in {Alice}, m \in {<<READ>>, <<WRITE>>} : AddPermission(id, m, Null)
  \/ \E id \in TwoGroups, m \in {<<READ>>, <<WRITE>>} : AddGroupPermission(id, m)

ChecksGroups ==
  \/ \E r \in {File1, Other}, id \in {Alice, Bob}, m \in {READ, WRITE, APPEND},
        opt \in LoaderOptions :
       CheckAccess(r, id, m, opt)
  \/ \E g \in TwoGroups, l \in Listings : LoadFrom(g, TRUE, l)
  \/ \E g \in TwoGroups : LoadFrom(g, FALSE, {})
  \/ Return

NextGroups == AddsGroups \/ ChecksGroups

SpecGroups == Init /\ [][NextGroups]_vars

\* A PermissionSet whose caller also adds origins to the Permissions it holds
AddOrigins == \E id \in AgentIds \cup GroupIds : AddOriginFor(id, <<App1>>)

NextOrigin == Adds \/ AddOrigins \/ Checks

SpecOrigin == Init /\ [][NextOrigin]_vars

\* A PermissionSet filled by addAuthorizationFor, which takes the resource and
\* the kind of each Permission from its arguments
InitFor ==
  /\ Init
  /\ config.resourceUrl = File1
  /\ ~config.strictOrigin

AddsFor ==
  \E r \in ForUrls, inherit \in BOOLEAN, a \in ForAgents, m \in ForModes :
    AddAuthorizationFor(r, inherit, a, m, <<>>)

NextFor == AddsFor \/ Checks

SpecFor == InitFor /\ [][NextFor]_vars

----------------------------------------------------------------------------
(* The terms of the specification, read off the collection of Permissions *)

\* The Permissions of the collection
Permissions == {store.heap[store.authorizations[k]] : k \in DOMAIN store.authorizations}

PrincipalIsPublic(p) == p.group = EVERYONE

PrincipalIsAgent(p, id) == p.agent = id /\ ~PrincipalIsPublic(p)

PrincipalIsGroup(p, id) == p.group = id /\ Falsy(p.agent) /\ ~PrincipalIsPublic(p)

\* The applicability rule: among the Permissions ps of one principal, the
\* Direct one on the resource, else the Inherited one with the longest
\* resourceUrl that is a prefix of the resource (a set with at most one element)
Applicable(ps, resourceUrl) ==
  LET direct == {p \in ps : p.accessType = ACCESS_TO /\ p.resourceUrl = resourceUrl}
      inherited == {p \in ps : p.accessType = DEFAULT
                                 /\ StartsWith(resourceUrl, p.resourceUrl)}
  IN IF direct # {} THEN direct
     ELSE {p \in inherited :
             \A q \in inherited : Len(q.resourceUrl) <= Len(p.resourceUrl)}

\* The access mode a mode argument names
ModeNamed(m) == IF m = "append" THEN APPEND ELSE m

\* Write implies Append; nothing else is implied
ModeGranted(p, m) ==
  \/ ModeNamed(m) \in p.accessModes
  \/ ModeNamed(m) = APPEND /\ WRITE \in p.accessModes

OriginEnforced ==
  config.strictOrigin /\ Truthy(config.origin) /\ config.origin # config.host

OriginPasses(p) == OriginEnforced => config.origin \in p.originsAllowed

PublicGrants(resourceUrl, m) ==
  \E p \in Applicable({q \in Permissions : PrincipalIsPublic(q)}, resourceUrl) :
    ModeGranted(p, m)

AgentGrants(resourceUrl, id, m) ==
  \E p \in Applicable({q \in Permissions : PrincipalIsAgent(q, id)}, resourceUrl) :
    ModeGranted(p, m) /\ OriginPasses(p)

GroupGrants(resourceUrl, g, m) ==
  \E p \in Applicable({q \in Permissions : PrincipalIsGroup(q, g)}, resourceUrl) :
    ModeGranted(p, m) /\ OriginPasses(p)

MemberGrants(resourceUrl, id, m) ==
  \E g \in DOMAIN groups : id \in groups[g] /\ GroupGrants(resourceUrl, g, m)

Resolved == call.pc = "done" /\ call.result \in {"true", "false"}

----------------------------------------------------------------------------
(* The claims *)

\* C1: a checkAccess call that resolves, on a set built by addPermission and
\* addGroupPermission calls, resolves true iff the applicable Public
\* Permission allows the mode, or the applicable Permission of Agent(agentId)
\* allows it and passes the origin check, or a group whose loaded listing
\* contains agentId has an applicable Permission that allows it and passes
\* the origin check; otherwise it resolves false.
C1_CheckAccessIff ==
  Resolved =>
    ( call.result = "true" <=>
        \/ PublicGrants(call.resourceUrl, call.accessMode)
        \/ AgentGrants(call.resourceUrl, call.agentId, call.accessMode)
        \/ MemberGrants(call.resourceUrl, call.agentId, call.accessMode) )

SamePrincipal(p, q) == p.agent = q.agent /\ p.group = q.group

\* p is an Inherited Permission of Public or of the requesting agent, on a
\* prefix of the requested resource, that grants the requested mode, and its
\* principal has no Direct Permission on the requested resource
InheritedGrant(p) ==
  /\ p.accessType = DEFAULT
  /\ StartsWith(call.resourceUrl, p.resourceUrl)
  /\ PrincipalIsPublic(p) \/ PrincipalIsAgent(p, call.agentId)
  /\ ModeGranted(p, call.accessMode)
  /\ PrincipalIsPublic(p) \/ OriginPasses(p)
  /\ \A q \in Permissions :
       SamePrincipal(p, q) /\ q.accessType = ACCESS_TO => q.resourceUrl # call.resourceUrl

\* No Inherited Permission of p's principal is on a longer prefix of the
\* requested resource
LongestPrefix(p) ==
  \A q \in Permissions :
    SamePrincipal(p, q) /\ q.accessType = DEFAULT
      /\ StartsWith(call.resourceUrl, q.resourceUrl)
    => Len(q.resourceUrl) <= Len(p.resourceUrl)

\* The set holds no Permission of Agent(agentId), of Public or of a group
NoGrantFor(agentId) ==
  \A p \in Permissions : Falsy(p.group) /\ p.agent # agentId

\* C2 (as stated): when Public or the requesting agent has an Inherited
\* Permission on a prefix C of the requested resource R that grants the mode,
\* and no Direct Permission on R, the call resolves true; for an agent with no
\* Permission of its own, in a set with no public and no group Permission, it
\* resolves false.
C2_InheritedAsStated ==
  Resolved =>
    /\ (\E p \in Permissions : InheritedGrant(p)) => call.result = "true"
    /\ NoGrantFor(call.agentId) => call.result = "false"

\* C2 (amended): the same, for an Inherited Permission on the longest prefix of
\* R among the Inherited Permissions of its principal.
C2_InheritedLongestPrefix ==
  Resolved =>
    /\ (\E p \in Permissions : InheritedGrant(p) /\ LongestPrefix(p))
         => call.result = "true"
    /\ NoGrantFor(call.agentId) => call.result = "false"

\* C2 witness: a call resolved true for an agent whose Inherited Permissions
\* are on two proper prefixes of the resource, the longer of which grants the mode
C2_Witness ==
  /\ Resolved
  /\ call.result = "true"
  /\ \E p, q \in Permissions :
       /\ InheritedGrant(p) /\ LongestPrefix(p)
       /\ PrincipalIsAgent(p, call.agentId)
       /\ SamePrincipal(p, q)
       /\ q.accessType = DEFAULT
       /\ Len(q.resourceUrl) < Len(p.resourceUrl)
       /\ Len(p.resourceUrl) < Len(call.resourceUrl)
       /\ ~ModeGranted(q, call.accessMode)

\* C3: with a Direct group Permission for G on the requested resource that
\* grants Write, and G's listing loaded, a call for Write or Append resolves
\* true for every member of G and false for every agent that is not a member
\* and has no public and no agent grant.
C3_GroupMembership ==
  Resolved =>
    \A p \in Permissions :
      ( /\ PrincipalIsGroup(p, p.group)
        /\ p.accessType = ACCESS_TO
        /\ p.resourceUrl = call.resourceUrl
        /\ WRITE \in p.accessModes
        /\ OriginPasses(p)
        /\ call.accessMode \in {WRITE, APPEND}
        /\ p.group \in DOMAIN groups )
      => /\ call.agentId \in groups[p.group] => call.result = "true"
         /\ ( /\ call.agentId \notin groups[p.group]
              /\ \A q \in Permissions : PrincipalIsGroup(q, p.group) )
            => call.result = "false"

\* C4: a call in which the fetcher reported the listing of a group absent is
\* not rejected, and resolves true only by a public grant, an agent grant or
\* the grant of a group whose listing the fetcher delivered in the call.
C4_AbsentListingDenies ==
  (call.pc = "done" /\ call.absent # {}) =>
    /\ call.result \in {"true", "false"}
    /\ call.result = "true" =>
         \/ PublicGrants(call.resourceUrl, call.accessMode)
         \/ AgentGrants(call.resourceUrl, call.agentId, call.accessMode)
         \/ \E g \in DOMAIN groups \ call.absent :
              /\ call.agentId \in groups[g]
              /\ GroupGrants(call.resourceUrl, g, call.accessMode)

\* p is a Permission of Public, of the requesting agent, or of a group whose
\* loaded listing has the requesting agent
HeldByRequester(p) ==
  \/ PrincipalIsPublic(p)
  \/ PrincipalIsAgent(p, call.agentId)
  \/ /\ PrincipalIsGroup(p, p.group)
     /\ p.group \in DOMAIN groups
     /\ call.agentId \in groups[p.group]

\* p is a non-virtual Permission with Control, of the requester, on the resource
\* whose policy document is requested
ControlGrant(p) ==
  /\ ~p.virtual
  /\ CONTROL \in p.accessModes
  /\ HeldByRequester(p)
  /\ call.resourceUrl = defaultAclUrlFor(p.resourceUrl)

\* The Permission of p's principal on the policy document of p's resource
\* passes the origin check
PolicyGrantPasses(p) ==
  \/ PrincipalIsPublic(p)
  \/ \E v \in Permissions :
       /\ SamePrincipal(v, p)
       /\ v.resourceUrl = defaultAclUrlFor(p.resourceUrl)
       /\ OriginPasses(v)

AppliesToRequester(p) ==
  \/ p \in Applicable({q \in Permissions : PrincipalIsAgent(q, call.agentId)},
                      call.resourceUrl)
  \/ \E g \in DOMAIN groups :
       /\ call.agentId \in groups[g]
       /\ p \in Applicable({q \in Permissions : PrincipalIsGroup(q, g)},
                           call.resourceUrl)

\* C6: a Permission of the requesting agent, or of a group of the agent, that
\* applies and allows the requested mode grants access iff strict-origin
\* enforcement is off, or no origin is given, or the origin equals the host, or
\* its allowed origins contain the request origin: the call resolves true if
\* so, and false if no applicable Permission of the requester does and there
\* is no public grant; this holds also after the caller has added the origin
\* to the Permission.
C6_OriginCheck ==
  Resolved =>
    \A p \in Permissions :
      AppliesToRequester(p) /\ ModeGranted(p, call.accessMode)
      => /\ OriginPasses(p) => call.result = "true"
         /\ ( /\ ~PublicGrants(call.resourceUrl, call.accessMode)
              /\ ~AgentGrants(call.resourceUrl, call.agentId, call.accessMode)
              /\ ~MemberGrants(call.resourceUrl, call.agentId, call.accessMode) )
            => call.result = "false"

\* C7: when the applicable Public Permission allows the mode, allowsPublic is
\* true and a checkAccess call returns true, for every agent and under every
\* origin setting (the origin check is not applied to public grants).
C7_PublicIgnoresOrigin ==
  /\ \A r \in QueryUrls, m \in QueryModes :
       PublicGrants(r, m) => allowsPublic(store, m, r)
  /\ (call.pc = "done" /\ PublicGrants(call.resourceUrl, call.accessMode))
       => call.result = "true"

\* C7 witness: under strict-origin enforcement with a foreign origin, a call
\* returned true on a public Permission that allows no origin, for an agent
\* with no Permission of its own
C7_Witness ==
  /\ call.pc = "done"
  /\ call.result = "true"
  /\ OriginEnforced
  /\ PublicGrants(call.resourceUrl, call.accessMode)
  /\ \A p \in Permissions : PrincipalIsPublic(p) /\ p.originsAllowed = {}

\* The allows methods of the Permission agree with its mode set, Append being
\* allowed by Append or by Write and every other mode by itself alone
AllowsAgreeWithModes(p) ==
  /\ allowsAppend(p) <=> (APPEND \in p.accessModes \/ WRITE \in p.accessModes)
  /\ allowsMode(p, APPEND) <=> (APPEND \in p.accessModes \/ WRITE \in p.accessModes)
  /\ allowsMode(p, "append") <=> (APPEND \in p.accessModes \/ WRITE \in p.accessModes)
  /\ allowsRead(p) <=> READ \in p.accessModes
  /\ allowsWrite(p) <=> WRITE \in p.accessModes
  /\ allowsControl(p) <=> CONTROL \in p.accessModes
  /\ allowsMode(p, READ) <=> READ \in p.accessModes
  /\ allowsMode(p, WRITE) <=> WRITE \in p.accessModes
  /\ allowsMode(p, CONTROL) <=> CONTROL \in p.accessModes

\* addMode adds the mode and removeMode removes it, and nothing else
ModeEditsAreExact ==
  \A m \in ModeArgs :
    /\ AddMode(m) => perm'.accessModes = perm.accessModes \cup {m[1]}
    /\ RemoveMode(m) =>
         /\ perm'.accessModes = perm.accessModes \ {m[1]}
         /\ (m[1] = APPEND /\ WRITE \in perm.accessModes)
              => allowsWrite(perm') /\ allowsAppend(perm')
         /\ (m[1] = WRITE /\ perm.accessModes = {APPEND}) => perm' = perm

\* A call for Append that resolves, resolves true on the applicable Permission
\* of the requester when it grants Write alone
AppendOnWriteAlone ==
  (Resolved /\ ModeNamed(call.accessMode) = APPEND) =>
    \A p \in Permissions :
      ( /\ p.accessModes = {WRITE}
        /\ PrincipalIsPublic(p) \/ AppliesToRequester(p)
        /\ p \in Applicable({q \in Permissions : SamePrincipal(p, q)}, call.resourceUrl)
        /\ PrincipalIsPublic(p) \/ OriginPasses(p) )
      => call.result = "true"

\* C8: at every point of a sequence of addMode and removeMode calls on a
\* Permission, allowsAppend() and allowsMode(Append) are true iff the modes
\* have Append or Write, and allowsRead, allowsWrite and allowsControl are true
\* iff the modes have that very mode; addMode(m) adds m only and removeMode(m)
\* removes m only (removing Append leaves Write and allowsAppend, removing
\* Write from Append alone changes nothing); and checkAccess for Append
\* returns true on a grant of Write alone.
C8_WriteImpliesAppend ==
  /\ [](AllowsAgreeWithModes(perm) /\ AppendOnWriteAlone)
  /\ [][ModeEditsAreExact]_vars

\* C8 witness: a call for Append returned true for an agent whose only
\* Permission grants Write alone
C8_Witness ==
  /\ call.pc = "done"
  /\ call.result = "true"
  /\ call.accessMode = APPEND
  /\ perm.accessModes = {WRITE}
  /\ PrincipalIsAgent(perm, call.agentId)
  /\ Permissions = {perm}

\* The entries of an index refer to Permissions that the collection holds
\* under the same identity key with the same modes
EntriesInCollection(index) ==
  \A k \in DOMAIN index :
    LET p == store.heap[index[k]]
        h == hashFragment(p)
    IN /\ k = IndexKey(p)
       /\ h \in DOMAIN store.authorizations
       /\ store.heap[store.authorizations[h]].accessModes = p.accessModes

\* The Permissions of the collection are found through the index entry of
\* their principal, accessType and resourceUrl
CollectionInIndexes ==
  \A p \in Permissions :
    /\ IndexKey(p) \in DOMAIN store.agents
    /\ store.heap[store.agents[IndexKey(p)]].accessModes = p.accessModes
    /\ (isPublic(p) \/ isGroup(p)) =>
         /\ IndexKey(p) \in DOMAIN store.groups
         /\ store.heap[store.groups[IndexKey(p)]].accessModes = p.accessModes

\* C9: after every addPermission, addGroupPermission and removePermission the
\* by-agent and by-group indexes agree with the collection: every index entry
\* refers to a Permission in the collection under the same identity key and
\* with the same modes, and every Permission of the collection is reached
\* through the index entry of its principal, accessType and resourceUrl.
C9_IndexConsistency ==
  /\ EntriesInCollection(store.agents)
  /\ EntriesInCollection(store.groups)
  /\ CollectionInIndexes

\* The identity key of the Permission an add call of the set makes for id, and
\* the key of the same principal on the policy document
KeyFor(id) ==
  hashFragmentFor(id, config.resourceUrl,
                  IF config.resourceType = CONTAINER THEN DEFAULT ELSE ACCESS_TO)

PolicyKeyFor(id) ==
  hashFragmentFor(id, defaultAclUrlFor(config.resourceUrl),
                  IF config.resourceType = CONTAINER THEN DEFAULT ELSE ACCESS_TO)

\* The modes stored under a key, none when the key is absent
ModesAt(st, h) ==
  IF h \in DOMAIN st.authorizations
    THEN st.heap[st.authorizations[h]].accessModes
    ELSE {}

\* Every Permission of the collection is stored under its own identity key
OneByKey ==
  \A h \in DOMAIN store.authorizations :
    hashFragment(store.heap[store.authorizations[h]]) = h

\* The step is an add call for principal id with the one mode of m
IsAdd(id, m) ==
  \/ \E o \in OriginArgs : AddPermission(id, m, o)
  \/ AddGroupPermission(id, m)

----------------------------------------------------------------------------
(* C11: removePermission *)

\* The Permissions of the collection that belong to principal id at the
\* resourceUrl of the set (not the virtual ones made for a policy document)
HeldAt(st, id) ==
  {h \in DOMAIN st.authorizations :
     /\ webId(st.heap[st.authorizations[h]]) = id
     /\ st.heap[st.authorizations[h]].resourceUrl = config.resourceUrl}

\* The step is removePermission(id, m)
IsRemove(id, m) == RemovePermission(id, m)

\* The Permission stored under key h is the same before and after the step
SameAt(h) ==
  /\ h \in DOMAIN store.authorizations <=> h \in DOMAIN store'.authorizations
  /\ h \in DOMAIN store.authorizations =>
       store'.heap[store'.authorizations[h]] = store.heap[store.authorizations[h]]

\* C11: removePermission(P, modes) removes exactly the given modes from P's
\* Permission at the resourceUrl of the set and leaves every other Permission
\* as it was; while modes remain the Permission stays and count is unchanged;
\* when none remains the Permission is deleted, count drops by one and
\* permissionFor(P) returns nothing; when P has no Permission the call changes
\* nothing.
C11_RemoveExactly ==
  [][\A id \in AgentIds \cup GroupIds, m \in ModeArgs :
       IsRemove(id, m) =>
         /\ \A h \in (DOMAIN store.authorizations \cup DOMAIN store'.authorizations)
                       \ HeldAt(store, id) : SameAt(h)
         /\ \A h \in HeldAt(store, id) :
              LET left == ModesAt(store, h) \ {m[1]}
              IN IF left # {}
                   THEN /\ ModesAt(store', h) = left
                        /\ h \in DOMAIN store'.authorizations
                        /\ count(store') = count(store)
                   ELSE /\ h \notin DOMAIN store'.authorizations
                        /\ count(store') = count(store) - 1
                        /\ permissionFor(store', id, Null) = Null
         /\ HeldAt(store, id) = {} => store' = store]_vars

----------------------------------------------------------------------------
(* C12: one principal *)

\* At most one of agent and group is set on the Permission
OnePrincipal(p) == ~(Truthy(p.agent) /\ Truthy(p.group))

\* The call of the step failed with an error and left the principal as it was
FailedUnchanged ==
  /\ permErr'
  /\ perm'.agent = perm.agent
  /\ perm'.group = perm.group

\* C12: after any sequence of setAgent / setGroup / setPublic calls at most one
\* of agent and group is set; setGroup and setPublic fail with an error when
\* an agent is set, setAgent fails with an error when a group is set, and a
\* failing call leaves the principal unchanged.
C12_OnePrincipal ==
  /\ []OnePrincipal(perm)
  /\ [][/\ \A g \in GroupIds :
             SetGroup(g) /\ Truthy(perm.agent) => FailedUnchanged
        /\ SetPublic /\ Truthy(perm.agent) => FailedUnchanged
        /\ \A a \in AgentIds :
             SetAgent(a) /\ Truthy(perm.group) => FailedUnchanged]_vars

----------------------------------------------------------------------------
(* C13: setAgent with the everyone id *)

\* No principal has been set on the Permission
NoPrincipal(p) == Falsy(p.agent) /\ Falsy(p.group)

\* C13: setAgent with the everyone id on a Permission without a principal
\* leaves it in the state setPublic() leaves it in: the group is the everyone
\* id and no agent is set, isPublic() is true for both, and the two are
\* equals() to each other.
C13_EveryoneIsPublic ==
  [][SetAgent(EVERYONE) /\ NoPrincipal(perm) =>
       LET pub == setPublic(perm)[1]
       IN /\ perm' = pub
          /\ pub.group = EVERYONE /\ Falsy(pub.agent)
          /\ isPublic(perm') /\ isPublic(pub)
          /\ equals(perm', pub) /\ equals(pub, perm')]_vars

----------------------------------------------------------------------------
(* C14: mergeWith *)

\* The identity key: principal id, resourceUrl and accessType
IdentityKey(p) == <<webId(p), p.resourceUrl, p.accessType>>

\* Both Permissions have a resourceUrl, so that a key is computed for each
BothKeyed == Truthy(perm.resourceUrl) /\ Truthy(other.resourceUrl)

\* C14: when P and Q have the same identity key, P.mergeWith(Q) leaves P with
\* the union of the two mode sets (and its other fields as they were) and
\* leaves Q unchanged; a second merge of Q changes nothing; when the keys
\* differ the call fails with an error and P is unchanged.
C14_MergeWith ==
  [][MergeWith /\ BothKeyed =>
       /\ other' = other
       /\ IdentityKey(perm) = IdentityKey(other) =>
            /\ ~permErr'
            /\ perm' = [perm EXCEPT !.accessModes = perm.accessModes \cup other.accessModes]
            /\ nMerge >= 1 => perm' = perm
       /\ IdentityKey(perm) # IdentityKey(other) =>
            /\ permErr'
            /\ perm' = perm]_vars

\* C14 witness: Q has been merged twice into a P of the same key that lacked
\* one of its modes
C14_Witness ==
  /\ nMerge = 2
  /\ ~permErr
  /\ IdentityKey(perm) = IdentityKey(other)
  /\ isAgent(perm)
  /\ perm.accessModes = {READ, WRITE}
  /\ other.accessModes = {WRITE}

----------------------------------------------------------------------------
(* C15: hashFragment on an incomplete Permission *)

\* C15: the identity-key computation that addAuthorization starts with fails
\* with an error when the Permission has no principal or no resourceUrl, and
\* only then; otherwise the Permission is stored under the key returned.
C15_IncompleteIdentity ==
  [][AddAuthorization =>
       IF NoPrincipal(perm) \/ Falsy(perm.resourceUrl)
         THEN permErr' /\ store' = store
         ELSE /\ ~permErr'
              /\ hashFragmentFor(webId(perm), perm.resourceUrl, perm.accessType)
                   \in DOMAIN store'.authorizations]_vars

----------------------------------------------------------------------------
(* C16: what is serialized *)

\* The statements of the document about the Permission stored under key h
StatementsOf(graph, h) == {t \in graph : t[1] = Fragment(h)}

\* C16: serialization emits statements for a Permission of the set iff it is
\* valid (a principal, a resourceUrl and at least one access mode) and not
\* virtual; an invalid or virtual Permission contributes nothing.
C16_SerializedIffValid ==
  [][Serialize =>
       \A h \in DOMAIN store.authorizations :
         LET p == store.heap[store.authorizations[h]]
         IN StatementsOf(doc', h) # {} <=> (isValid(p) /\ ~p.virtual)]_vars

----------------------------------------------------------------------------
(* C17: serialize and parse again *)

\* The document is the serialization of the set as it is now
Serialized == doc = buildGraph(store)

\* Every Permission of the set is valid, and the set has one
ValidGrants ==
  /\ store.authorizations # EmptyMap
  /\ \A p \in Permissions : isValid(p)

\* C17: a set (Resource or Container) built from valid grants, serialized and
\* parsed into a new set with the same resourceUrl, aclUrl and resourceType,
\* gives a set that equals() the original.
C17_RoundTrip ==
  [][Parse /\ Serialized /\ ValidGrants =>
       /\ equalsSet(store, parsed')
       /\ equalsSet(parsed', store)]_vars

----------------------------------------------------------------------------
(* C18: virtual Permissions *)

\* The keys of the virtual Permissions of the collection
VirtualKeys == {h \in DOMAIN store.authorizations :
                  store.heap[store.authorizations[h]].virtual}

\* The call asks about the policy document of the set as an agent who holds a
\* virtual Permission for it
AsksWithVirtual ==
  \E h \in VirtualKeys :
    LET v == store.heap[store.authorizations[h]]
    IN /\ call.resourceUrl = v.resourceUrl
       /\ call.agentId = v.agent
       /\ ~isPublic(v)

\* C18: after any sequence of additions no virtual Permission is in the list
\* allAuthorizations() returns (the one forEach walks) and none has a statement
\* in the serialized document, while a call about the policy document by the
\* holder of a virtual Permission is granted by it (under no origin check).
C18_VirtualHidden ==
  /\ [](\A p \in allAuthorizations(store) : ~p.virtual)
  /\ [][Serialize => \A h \in VirtualKeys : StatementsOf(doc', h) = {}]_vars
  /\ [](Resolved /\ AsksWithVirtual /\ ~OriginEnforced /\ call.accessMode \in {READ, WRITE, CONTROL}
          => call.result = "true")

----------------------------------------------------------------------------
(* C19: the arguments of the add calls *)

\* The id argument is empty or missing
EmptyId(id) == id = Empty \/ id = Null

\* The modes argument is missing, the empty string or the empty list
EmptyModes(m) == m = Null \/ m = <<"">> \/ m = <<>>

\* C19: addPermission and addGroupPermission fail with an error when the set
\* has no resourceUrl, when the principal id is empty and when the modes
\* argument is empty; a failing call leaves the collection and both indexes
\* unchanged.
C19_AddArguments ==
  [][\A id \in ArgIds, m \in ArgModes :
       (AddPermission(id, m, Null) \/ AddGroupPermission(id, m)) =>
         /\ (Falsy(config.resourceUrl) \/ EmptyId(id) \/ EmptyModes(m)) => setErr'
         /\ setErr' => store' = store]_vars

----------------------------------------------------------------------------
(* C20: checkAccess does not reject *)

\* No Permission of the set grants the call: not a Public one, not one of the
\* agent, not one of any group
NothingGrants ==
  /\ ~PublicGrants(call.resourceUrl, call.accessMode)
  /\ ~AgentGrants(call.resourceUrl, call.agentId, call.accessMode)
  /\ \A g \in GroupIds : ~GroupGrants(call.resourceUrl, g, call.accessMode)

\* C20: whatever the set holds and whether or not a group loader is supplied,
\* the promise of checkAccess resolves to a boolean and never rejects, and it
\* resolves false when nothing grants access.
C20_NeverRejects ==
  call.pc = "done" =>
    /\ call.result \in {"true", "false"}
    /\ NothingGrants => call.result = "false"

\* The groups whose listing the fetcher delivered in the call that has just
\* resolved
LoadedInCall == {g \in DOMAIN call.fetched : call.fetched[g].ok}

\* G's applicable Permission allows the mode for the requester, who is a member
\* of the listing delivered for G in the call
GrantsThroughLoaded(g) ==
  /\ call.agentId \in call.fetched[g].members
  /\ GroupGrants(call.resourceUrl, g, call.accessMode)

\* C21: when in one checkAccess call the load of a group G1 fails and the load
\* of a group G2 succeeds, the agent is a member of G2 and G2's applicable
\* Permission allows the mode and passes the origin check, the call resolves
\* true.
C21_FailedLoadIsolated ==
  call.pc = "done" =>
    \A g1 \in call.absent, g2 \in LoadedInCall :
      GrantsThroughLoaded(g2) => call.result = "true"

\* C21 witness: a call resolved true in which one listing failed to load and
\* the requester is a member of the other, whose Permission grants the mode,
\* and is not granted the mode in another way
C21_Witness ==
  /\ call.pc = "done"
  /\ call.result = "true"
  /\ \E g1 \in call.absent, g2 \in LoadedInCall :
       g1 \notin DOMAIN groups /\ GrantsThroughLoaded(g2)
  /\ ~PublicGrants(call.resourceUrl, call.accessMode)
  /\ ~AgentGrants(call.resourceUrl, call.agentId, call.accessMode)

\* The Permissions of the collection whose principal has the given id
PermissionsOf(id) == {q \in Permissions : webId(q) = id}

\* What findAuthByAgent selects in an index: a set with at most one Permission
Selected(index, id, resourceUrl) ==
  LET a == findAuthByAgent(index, id, resourceUrl)
  IN IF a = Null THEN {} ELSE {store.heap[a]}

\* The same grant: principal, resource, type, modes and origins
SameGrant(p, q) ==
  /\ SamePrincipal(p, q)
  /\ p.resourceUrl = q.resourceUrl
  /\ p.accessType = q.accessType
  /\ p.accessModes = q.accessModes
  /\ p.originsAllowed = q.originsAllowed

\* The selection agrees with the rule: none applies and nothing is selected,
\* or the selected Permission is the one that applies
SelectsApplicable(selected, applicable) ==
  /\ selected = {} <=> applicable = {}
  /\ \A p \in selected : \E q \in applicable : SameGrant(p, q)

LookupIds == {Alice, Bob, Group1, EVERYONE}

LookupUrls == ForUrls \cup QueryUrls

\* C22: for a principal and a queried resource the selected Permission is the
\* principal's Direct Permission on exactly that resource if there is one;
\* otherwise, among the principal's Inherited Permissions whose resourceUrl is
\* a prefix of the resource, the one with the longest resourceUrl; otherwise
\* none.  (Public is looked up in the by-group index, every other principal
\* in the by-agent index.)
C22_ApplicabilityRule ==
  \A r \in LookupUrls :
    /\ \A id \in LookupIds :
         SelectsApplicable(Selected(store.agents, id, r),
                           Applicable(PermissionsOf(id), r))
    /\ SelectsApplicable(Selected(store.groups, EVERYONE, r),
                         Applicable({q \in Permissions : PrincipalIsPublic(q)}, r))

\* The type of the Permissions the add calls of the set make
DefaultType == IF config.resourceType = CONTAINER THEN DEFAULT ELSE ACCESS_TO

\* C23: the Permission an add call makes is Inherited on a Container set and
\* Direct on a Resource set; it is the one permissionFor(P) returns and the
\* one removePermission(P, M) modifies, so that the add call followed by
\* removePermission(P, M) leaves no Permission for P (when P had none before).
C23_AddedIsFound ==
  [][\A id \in AgentIds \cup GroupIds, m \in ModeArgs :
       (IsAdd(id, m) /\ nOps' = nOps + 1) =>
         LET a == permissionFor(store', id, Null)
             after == removePermission(store', id, m)
         IN /\ ModesAt(store', KeyFor(id)) # {}
            /\ a # Null
            /\ a # Null =>
                 /\ store'.heap[a].accessType = DefaultType
                 /\ store'.heap[a].inherited = (config.resourceType = CONTAINER)
                 /\ m[1] \in store'.heap[a].accessModes
            /\ m[1] \notin ModesAt(after, KeyFor(id))
            /\ HeldAt(store, id) = {} => HeldAt(after, id) = {}]_vars

\* The group ids whose load the call in progress has issued
IssuedLoads == call.pending \cup DOMAIN call.fetched

\* C24: a checkAccess call that reaches the group phase invokes the loader
\* only for group ids whose listing is not in the cache of the set; a group
\* loaded by an earlier call is not fetched again.
C24_LoadsUncachedOnly ==
  call.pc = "loading" => \A g \in IssuedLoads : g \notin DOMAIN groups

\* The loads of a call are issued together, and nothing is decided and no
\* slot written while one of them is outstanding
LoadsOutstanding ==
  call.pc = "loading" =>
    /\ IssuedLoads = groupUris(store)
    /\ call.pending # {}
    /\ call.result = "none"

\* The call resolved in the group phase with every issued load completed, and
\* each slot of a delivered listing holds that listing
LoadsCompleted ==
  (call.pc = "done" /\ call.fetched # EmptyMap) =>
    /\ DOMAIN call.fetched = groupUris(store)
    /\ \A g \in LoadedInCall : g \in DOMAIN groups /\ groups[g] = call.fetched[g].members
    /\ call.result = IF checkGroupAccess(store, groups, call.resourceUrl, call.agentId,
                                         call.accessMode)
                       THEN "true" ELSE "false"

\* A step of the group phase writes no slot before the last load completes;
\* the last one writes the slots of the delivered listings, each with its own
\* listing, and leaves every other slot as it was: the cache after the call is
\* determined by the cache before it and by what each load resolved to
SlotsOwnWrites ==
  call.pc = "loading" =>
    IF call'.pc = "loading" THEN groups' = groups
    ELSE /\ DOMAIN groups' = DOMAIN groups \cup {g \in DOMAIN call'.fetched : call'.fetched[g].ok}
         /\ \A g \in DOMAIN groups' :
              groups'[g] = IF g \in DOMAIN call'.fetched /\ call'.fetched[g].ok
                             THEN call'.fetched[g].members
                             ELSE groups[g]

\* C25: within one call that reaches the group phase the loads of the
\* non-public group ids run concurrently, the membership check runs only after
\* every issued load has completed, each load writes the slot of its own group
\* id only, and the result and the cache after the call do not depend on the
\* order in which the loads complete.
C25_ConcurrentLoads ==
  /\ [](LoadsOutstanding /\ LoadsCompleted)
  /\ [][SlotsOwnWrites]_vars

\* C25 witness: a call resolved in the group phase after the loads of two
\* groups, which delivered different listings
C25_Witness ==
  /\ call.pc = "done"
  /\ DOMAIN call.fetched = TwoGroups
  /\ LoadedInCall = TwoGroups
  /\ call.fetched[Group1].members # call.fetched[Group2].members
  /\ call.result = "true"

\* C26: after any sequence of addPermission, addGroupPermission and
\* removePermission calls no Permission of the collection has an empty set of
\* access modes.
C26_NoEmptyPermission ==
  \A p \in Permissions : ~isEmpty(p)

\* The set has, and has had, no public, group or inherited grant: every
\* Permission object it refers to is a Direct one of an agent
OnlyDirectAgentGrants ==
  \A o \in DOMAIN store.heap :
    Falsy(store.heap[o].group) /\ store.heap[o].accessType = ACCESS_TO

\* The collection has a Permission of the agent on the resource that grants
\* the mode (Write grants Append)
HoldsMode(id, resourceUrl, m) ==
  \E p \in Permissions :
    /\ PrincipalIsAgent(p, id)
    /\ p.resourceUrl = resourceUrl
    /\ ModeGranted(p, m)

\* A call for a mode that no Permission of the collection grants the agent
\* resolves false
RevokedIsDenied ==
  (Resolved /\ OnlyDirectAgentGrants) =>
    ( ~HoldsMode(call.agentId, call.resourceUrl, call.accessMode)
        => call.result = "false" )

\* removePermission(A, m) leaves no Permission of A on the resource with m
RemovalTakesMode ==
  \A id \in AgentIds, m \in ModeArgs :
    (IsRemove(id, m) /\ OnlyDirectAgentGrants) =>
      \A p \in {store'.heap[store'.authorizations[h]] : h \in DOMAIN store'.authorizations} :
        (PrincipalIsAgent(p, id) /\ p.resourceUrl = config.resourceUrl)
          => m[1] \notin p.accessModes

\* C27: on a set with no public, group or inherited grants, after any sequence
\* of addPermission and removePermission calls, a mode whose last call for the
\* agent is removePermission is denied by checkAccess: the call removes the
\* mode from the collection, and checkAccess answers by the Permissions that
\* are in the collection, not by those removed earlier.
C27_RevocationEffective ==
  /\ []RevokedIsDenied
  /\ [][RemovalTakesMode]_vars

\* The requester is in no loaded listing, no public grant covers the request
\* and no Permission of the collection has the requester as its agent
OutsideEveryGrant ==
  /\ \A g \in DOMAIN groups : call.agentId \notin groups[g]
  /\ ~PublicGrants(call.resourceUrl, call.accessMode)
  /\ \A p \in Permissions : ~PrincipalIsAgent(p, call.agentId)

\* C28: a group Permission grants through membership only: a call for an
\* agentId that is in no loaded listing, with no public grant and no
\* Permission of Agent(agentId), resolves false, whatever the agentId (the id
\* of the group included) and whether or not a loader is supplied.
C28_GroupGrantsByMembership ==
  (call.pc = "done" /\ OutsideEveryGrant) => call.result = "false"

\* The keys of the non-virtual Permissions of a collection
ExplicitKeys(st) ==
  {h \in DOMAIN st.authorizations : ~st.heap[st.authorizations[h]].virtual}

\* C29: an add call with Control changes no non-virtual Permission other than
\* the one it adds to, whose modes after the call are its modes before and
\* the mode added, on its own resourceUrl, and which is not virtual; this for
\* every resource of the set, a policy document included.
C29_VirtualChangesNothing ==
  [][\A id \in AgentIds \cup GroupIds :
       (IsAdd(id, <<CONTROL>>) /\ nOps' = nOps + 1) =>
         /\ \A h \in (ExplicitKeys(store) \cup ExplicitKeys(store')) \ {KeyFor(id)} :
              SameAt(h)
         /\ KeyFor(id) \in ExplicitKeys(store')
         /\ ModesAt(store', KeyFor(id)) = ModesAt(store, KeyFor(id)) \cup {CONTROL}
         /\ store'.heap[store'.authorizations[KeyFor(id)]].resourceUrl = config.resourceUrl]_vars

\* The non-virtual Permissions of the collection
ExplicitPermissions == {p \in Permissions : ~p.virtual}

\* p is a Permission of the requester: of Public, of a principal with the
\* requester's id, or of a group whose loaded listing has the requester
OfRequester(p) ==
  \/ PrincipalIsPublic(p)
  \/ webId(p) = call.agentId
  \/ \E g \in DOMAIN groups : call.agentId \in groups[g] /\ PrincipalIsGroup(p, g)

\* An explicit Permission of the requester has Control on the resource of the set
HoldsControl ==
  \E p \in ExplicitPermissions :
    /\ OfRequester(p)
    /\ p.resourceUrl = config.resourceUrl
    /\ CONTROL \in p.accessModes

\* An explicit Permission of the requester grants the requested mode on the
\* requested resource
ExplicitlyGranted ==
  \E p \in ExplicitPermissions :
    /\ OfRequester(p)
    /\ p \in Applicable({q \in ExplicitPermissions : SamePrincipal(p, q)}, call.resourceUrl)
    /\ ModeGranted(p, call.accessMode)

\* C30: the virtual grant on the policy document lasts as long as the
\* principal's Control on the resource: once Control is removed, a call on the
\* policy document resolves false for every mode that no explicit, public or
\* group Permission grants.
C30_VirtualEndsWithControl ==
  ( /\ Resolved
    /\ call.resourceUrl = defaultAclUrlFor(config.resourceUrl)
    /\ ~HoldsControl
    /\ ~ExplicitlyGranted )
  => call.result = "false"

====
